---- MODULE Spec2Model ----
(***************************************************************************)
(* Import pipeline of mlflow-export-import: ExperimentImporter drives      *)
(* RunImporter over the runs of an experiment manifest, each run is        *)
(* created at the destination tracking backend, its data replayed, its     *)
(* artifacts staged/patched/uploaded, its status terminated, and a final   *)
(* pass links nested runs.                                                 *)
(*                                                                         *)
(* Environment model.  Every call to the tracking backend, the artifact    *)
(* store or the workspace that the main flow makes may raise.  The status  *)
(* update that an except-clause itself issues (import_run.py 164, 166) is  *)
(* taken to be delivered.  The tracking backend is the REST one, so an     *)
(* existing experiment name surfaces as RestException                      *)
(* RESOURCE_ALREADY_EXISTS, and nothing else writes to it meanwhile; the   *)
(* lookup by name may still come back empty.                               *)
(***************************************************************************)
EXTENDS Integers, Sequences, FiniteSets, TLC

\* ------------------------------------------------------------------ bounds
MaxRuns == 2
RunIds == 1..MaxRuns

\* entries the bridge listing of the run directory may return: 0..MaxLs
MaxLs == 2

\* longest path handed to the path translation, in tokens
MaxPathLen == 4

\* translations applied to one path in a row
MaxOps == 2

\* ------------------------------------------------------------ value shapes
\* mlflow.get_tracking_uri() when the call starts, and the URIs the tracking
\* client of the importer may hold
GlobalUri == "global"
ClientUris == {GlobalUri, "client"}

ExpName == "exp"

NoTag == [ns |-> "none", id |-> 0]
SrcRef(i) == [ns |-> "src", id |-> i]
DstRef(i) == [ns |-> "dst", id |-> i]

\* an exception: its class, the call that raised it, the REST error code, and
\* for the domain exception the class of the wrapped cause and the message parts
NoExc == [type |-> "none", at |-> "", code |-> "", cause |-> "", run |-> 0, exp |-> ""]
Exc(t, step) == [type |-> t, at |-> step, code |-> "", cause |-> "", run |-> 0, exp |-> ""]
RestExc(step, c) == [Exc("RestException", step) EXCEPT !.code = c]

NoRunDct == [run_id |-> 0, parent |-> 0, deleted |-> FALSE]

\* relative paths are sequences of segments
RootMLmodel == <<"MLmodel">>
NestedMLmodel == <<"model", "MLmodel">>
NoArt == [p \in {} |-> 0]

RECURSIVE Reverse(_)
Reverse(s) == IF s = <<>> THEN <<>> ELSE Append(Reverse(Tail(s)), Head(s))

RECURSIVE SeqsUpTo(_, _)
SeqsUpTo(S, n) ==
    IF n = 0 THEN {<<>>}
    ELSE LET shorter == SeqsUpTo(S, n - 1)
         IN shorter \cup {Append(s, x) : s \in shorter, x \in S}

Range(s) == {s[k] : k \in 1..Len(s)}

VARIABLES
    entry,          \* which public function was called
    input_s3,       \* input_dir starts with "s3:/"
    mlmodel_fix,    \* RunImporter.mlmodel_fix
    runs,           \* exp_dct["runs"] as read from experiment.json
    pc,             \* position of the single thread
    run_ids,        \* import_experiment local
    i,              \* runs of run_ids already taken by the loop
    run_ids_map,    \* import_experiment local: src id -> [dst_run_id, src_parent_run_id]
    map_keys,       \* insertion order of run_ids_map
    run_info_map,   \* import_experiment local: src id -> dst run id
    link_i,         \* entries of run_ids_map already visited by nested_tags
    experiment,     \* backend: id of the experiment named ExpName, 0 if none
    next_exp_id,    \* backend: id the next created experiment gets
    exp_ids,        \* ids returned by the set_experiment calls so far
    dst_runs,       \* backend: destination runs, index = run id
    src_run_dct,    \* _import_run local: the source run manifest
    art_empty,      \* source directory: the artifact root of the run holds no object
    run_id,         \* _import_run local: destination run id, 0 before create_run
    mlmodel_paths,  \* result of find_artifacts
    todo,           \* _update_mlmodel_run_id: manifests still to patch
    tmp_dst,        \* backing store: the staging copy exists
    in_scope,       \* the with-block of move_artifacts is open
    calls,          \* calls made on behalf of the current run, in order
    exc,            \* exception in flight or escaped
    caught,         \* exception that left the try block of _import_run, if any
    result,         \* what the entry function returned
    path,           \* path translation: the string handed in
    path_out,       \* path translation: the string after the calls so far
    path_ops,       \* path translation: the functions applied, in order
    tracking_uri    \* process-wide tracking URI of the mlflow module

importVars == <<entry, input_s3, mlmodel_fix, runs, pc, run_ids, i, run_ids_map,
                map_keys, run_info_map, link_i, experiment, next_exp_id, exp_ids,
                dst_runs, src_run_dct, run_id, mlmodel_paths, todo, tmp_dst,
                in_scope, calls, exc, result, art_empty, caught, tracking_uri>>

pathVars == <<path, path_out, path_ops>>

vars == <<importVars, pathVars>>

\* what a call is given; the import leaves the strings of the path translation alone
cfgVars == <<entry, input_s3, mlmodel_fix, runs, pathVars>>
expVars == <<run_ids, i, run_ids_map, map_keys, run_info_map, link_i>>
backendExp == <<experiment, next_exp_id, exp_ids>>
runVars == <<src_run_dct, art_empty, run_id, mlmodel_paths, todo, in_scope, caught>>

Init ==
    /\ entry \in {"import_run", "import_experiment"}
    /\ input_s3 \in BOOLEAN
    /\ mlmodel_fix \in (IF entry = "import_run" THEN BOOLEAN ELSE {TRUE})
    /\ runs \in (IF entry = "import_run"
                 THEN {<<r>> : r \in RunIds}
                 ELSE SeqsUpTo(RunIds, MaxRuns))
    /\ pc = IF entry = "import_run" THEN "L123" ELSE "E104"
    /\ run_ids = IF entry = "import_run" THEN runs ELSE <<>>
    /\ i = 0
    /\ run_ids_map = NoArt
    /\ map_keys = <<>>
    /\ run_info_map = NoArt
    /\ link_i = 0
    /\ experiment \in {0, 1}
    /\ next_exp_id = IF experiment = 0 THEN 1 ELSE 2
    /\ exp_ids = <<>>
    /\ dst_runs = <<>>
    /\ src_run_dct = NoRunDct
    /\ art_empty = FALSE
    /\ caught = NoExc
    /\ run_id = 0
    /\ mlmodel_paths = <<>>
    /\ todo = <<>>
    /\ tmp_dst = FALSE
    /\ in_scope = FALSE
    /\ calls = <<>>
    /\ exc = NoExc
    /\ result = "none"
    /\ tracking_uri = GlobalUri
    /\ path = <<>>
    /\ path_out = <<>>
    /\ path_ops = <<>>

\* ------------------------------------------------- mlflow_utils.set_experiment
on_rest_exception_uncaught(error_code) == "raise"

\* mlflow_utils.py 35-38: what the except-clause does with a RestException
on_rest_exception(error_code) ==
    IF error_code # "RESOURCE_ALREADY_EXISTS" THEN "raise" ELSE "lookup"

\* mlflow_utils.py 37: MlflowExportImportException(ex, "Cannot create experiment ...")
wrap_create(e) ==
    [type |-> "MlflowExportImportException", at |-> e.at, code |-> e.code,
     cause |-> e.type, run |-> 0, exp |-> ExpName]

\* mlflow_utils.py 38: get_experiment_by_name(exp_name) on the backend
get_experiment_by_name(e) == e

unresolved_goes_on(next_pc) == next_pc

\* mlflow_utils.py 37 and 39: the exception leaves set_experiment and, with no
\* handler at import_run.py 123 or import_experiment.py 104, the calling function
unresolved(next_pc) == "raised"

set_experiment(at, next_pc) ==
    \/ \* 32-34: created
       /\ experiment = 0
       /\ experiment' = next_exp_id
       /\ next_exp_id' = next_exp_id + 1
       /\ exp_ids' = Append(exp_ids, next_exp_id)
       /\ pc' = next_pc
       /\ exc' = exc
    \/ \* 32, 35-40: the name exists, create_experiment raises RESOURCE_ALREADY_EXISTS
       /\ experiment # 0
       /\ IF on_rest_exception("RESOURCE_ALREADY_EXISTS") = "lookup"
          THEN /\ exp_ids' = Append(exp_ids, get_experiment_by_name(experiment))
               /\ pc' = next_pc
               /\ exc' = exc
          ELSE /\ exp_ids' = exp_ids
               /\ pc' = unresolved(next_pc)
               /\ exc' = wrap_create(RestExc(at, "RESOURCE_ALREADY_EXISTS"))
       /\ UNCHANGED <<experiment, next_exp_id>>
    \/ \* 32, 35-39: the name exists for create_experiment, the lookup returns None
       /\ experiment # 0
       /\ on_rest_exception("RESOURCE_ALREADY_EXISTS") = "lookup"
       /\ pc' = unresolved(next_pc)
       /\ exc' = Exc("AttributeError", at)
       /\ UNCHANGED <<experiment, next_exp_id, exp_ids>>
    \/ \* 32, 35-37: create_experiment raises another RestException
       /\ IF on_rest_exception("INTERNAL_ERROR") = "raise"
          THEN /\ pc' = unresolved(next_pc)
               /\ exc' = wrap_create(RestExc(at, "INTERNAL_ERROR"))
               /\ exp_ids' = exp_ids
          ELSE /\ pc' = IF experiment = 0 THEN unresolved(next_pc) ELSE next_pc
               /\ exc' = IF experiment = 0 THEN Exc("AttributeError", at) ELSE exc
               /\ exp_ids' = IF experiment = 0 THEN exp_ids
                             ELSE Append(exp_ids, get_experiment_by_name(experiment))
       /\ UNCHANGED <<experiment, next_exp_id>>
    \/ \* 32 or 38: the backend call raises something that is no RestException
       /\ pc' = unresolved(next_pc)
       /\ exc' = Exc("Exception", at)
       /\ UNCHANGED <<experiment, next_exp_id, exp_ids>>

\* ------------------------------------------------------------ RunImporter
CurSrc == run_ids[i + 1]

\* what the source directory of one run may hold.  A direct call of import_run
\* is explored over all of it, the runs of an experiment over the part the
\* experiment-level code can tell apart.
\* 0: no parent-run tag; a run is not its own parent
ParentChoices(src) == {0} \cup (RunIds \ {src})
DeletedChoices == IF entry = "import_run" THEN BOOLEAN ELSE {FALSE}
ModelPathLists ==
    IF entry = "import_run"
    THEN {<<>>, <<NestedMLmodel>>, <<RootMLmodel>>, <<RootMLmodel, NestedMLmodel>>}
    ELSE {<<>>, <<NestedMLmodel>>}
LocalExistsChoices == IF entry = "import_run" THEN BOOLEAN ELSE {TRUE}
ArtEmptyChoices == IF entry = "import_run" THEN BOOLEAN ELSE {FALSE}

\* the model manifest the source holds at path p
SrcManifest(src, p) ==
    [run_id |-> SrcRef(src), artifact_path |-> SubSeq(p, 1, Len(p) - 1)]

\* the artifact tree under input_dir/artifacts, as far as manifests go
SrcTree(src, paths) == [p \in Range(paths) |-> SrcManifest(src, p)]

\* upload of a tree into a run's artifact root: same relative path overwrites
Upload(art, tree) ==
    [p \in DOMAIN art \cup DOMAIN tree |-> IF p \in DOMAIN tree THEN tree[p] ELSE art[p]]

\* a fault of a call made inside the try block (import_run.py 131-162)
Throw(at) ==
    /\ pc' = "except"
    /\ exc' = Exc("Exception", at)
    /\ caught' = Exc("Exception", at)
    /\ in_scope' = FALSE

\* a fault before the try block: leaves _import_run and its callers
Escape(at) ==
    /\ pc' = "raised"
    /\ exc' = Exc("Exception", at)

\* import_run.py 123
RunSetExperiment ==
    /\ pc = "L123"
    /\ set_experiment("L123", "L125")
    /\ UNCHANGED <<cfgVars, expVars, dst_runs, runVars, tmp_dst, calls, result, tracking_uri>>

after_get_experiment_create_first == "L129"

\* import_run.py 126-129: the manifest is read and the filesystem object made
\* before create_run
after_get_experiment == "L127"

\* import_run.py 125
RunGetExperiment ==
    /\ pc = "L125"
    /\ \/ pc' = after_get_experiment /\ exc' = exc
       \/ Escape("L125")
    /\ UNCHANGED <<cfgVars, expVars, backendExp, dst_runs, runVars, tmp_dst, calls, result, tracking_uri>>

\* import_run.py 126-127
ReadRunManifest ==
    /\ pc = "L127"
    /\ \/ /\ \E par \in ParentChoices(CurSrc), del \in DeletedChoices :
               src_run_dct' = [run_id |-> CurSrc, parent |-> par, deleted |-> del]
          /\ art_empty' \in ArtEmptyChoices
          /\ pc' = "L128"
          /\ exc' = exc
       \/ Escape("L127") /\ UNCHANGED <<src_run_dct, art_empty>>
    /\ UNCHANGED <<cfgVars, expVars, backendExp, dst_runs, run_id, mlmodel_paths,
                   todo, in_scope, caught, tmp_dst, calls, result, tracking_uri>>

\* import_run.py 128, filesystem.py 22-24
NewFileSystem ==
    /\ pc = "L128"
    /\ \/ pc' = "L129" /\ exc' = exc
       \/ Escape("L128")
    /\ UNCHANGED <<cfgVars, expVars, backendExp, dst_runs, runVars, tmp_dst, calls, result, tracking_uri>>

\* a run as create_run leaves it; src and src_parent record which source run it is for
NewRun(src, src_parent) ==
    [src |-> src, src_parent |-> src_parent, status |-> "RUNNING", stage |-> "active",
     parent |-> NoTag, art |-> NoArt]

\* import_run.py 129-130
CreateRun ==
    /\ pc = "L129"
    /\ \/ /\ dst_runs' = Append(dst_runs, NewRun(CurSrc, src_run_dct.parent))
          /\ run_id' = Len(dst_runs) + 1
          /\ calls' = Append(calls, "create_run")
          /\ pc' = "L133"
          /\ exc' = exc
       \/ Escape("L129") /\ UNCHANGED <<dst_runs, run_id, calls>>
    /\ UNCHANGED <<cfgVars, expVars, backendExp, src_run_dct, art_empty, mlmodel_paths,
                   todo, in_scope, caught, tmp_dst, result, tracking_uri>>

\* import_run.py 133-141: the tags of the source run are replayed
ImportRunData ==
    /\ pc = "L133"
    /\ \/ /\ dst_runs' = [dst_runs EXCEPT ![run_id].parent =
                             IF src_run_dct.parent = 0 THEN NoTag
                             ELSE SrcRef(src_run_dct.parent)]
          /\ calls' = Append(calls, "import_run_data")
          /\ pc' = "L143"
          /\ exc' = exc
          /\ UNCHANGED <<in_scope, caught>>
       \/ Throw("L133") /\ UNCHANGED <<dst_runs, calls>>
    /\ UNCHANGED <<cfgVars, expVars, backendExp, src_run_dct, art_empty, run_id, mlmodel_paths,
                   todo, tmp_dst, result, tracking_uri>>

has_match_always(found) == TRUE

\* import_run.py 143: the truth value of the list find_artifacts returned
has_match(found) == found # <<>>

\* import_run.py 142-143, 155-156
FindArtifacts ==
    /\ pc = "L143"
    /\ \/ /\ \E found \in ModelPathLists :
               /\ mlmodel_paths' = found
               /\ pc' = IF has_match(found) THEN "L144" ELSE "L158"
          /\ exc' = exc
          /\ UNCHANGED <<in_scope, caught>>
       \/ Throw("L143") /\ mlmodel_paths' = mlmodel_paths
    /\ UNCHANGED <<cfgVars, expVars, backendExp, dst_runs, src_run_dct, art_empty, run_id,
                   todo, tmp_dst, calls, result, tracking_uri>>

\* filesystem.py 46
is_empty_listing(n) == n <= 1

\* import_run.py 144, filesystem.py 42-49 and 51-52: entering the scope
MoveArtifactsEnter ==
    /\ pc = "L144"
    /\ IF input_s3
       THEN \/ \E n \in 0..MaxLs :
                 IF is_empty_listing(n)
                 THEN /\ pc' = "except"
                      /\ exc' = Exc("EmptyExperimentPathException", "F47")
                      /\ caught' = Exc("EmptyExperimentPathException", "F47")
                      /\ UNCHANGED <<tmp_dst, in_scope, calls>>
                 ELSE /\ pc' = "L149"
                      /\ exc' = exc
                      /\ tmp_dst' = TRUE
                      /\ in_scope' = TRUE
                      /\ calls' = Append(calls, "cp")
                      /\ caught' = caught
            \/ Throw("F45") /\ UNCHANGED <<tmp_dst, calls>>
            \/ Throw("F48") /\ tmp_dst' \in BOOLEAN /\ calls' = calls
       ELSE /\ pc' = "L149"
            /\ exc' = exc
            /\ in_scope' = TRUE
            /\ UNCHANGED <<tmp_dst, calls, caught>>
    /\ UNCHANGED <<cfgVars, expVars, backendExp, dst_runs, src_run_dct, art_empty, run_id,
                   mlmodel_paths, todo, result, tracking_uri>>

manifests_to_patch_first(found) == <<Head(found)>>

\* import_run.py 186-188: the loop visits every path the search returned
manifests_to_patch(found) == found

\* import_run.py 149-151, 186
FixMlmodel ==
    /\ pc = "L149"
    /\ IF mlmodel_fix
       THEN \/ /\ todo' = manifests_to_patch(mlmodel_paths)
               /\ pc' = "L188"
               /\ exc' = exc
               /\ UNCHANGED <<in_scope, caught>>
            \/ Throw("L186") /\ todo' = todo
       ELSE /\ pc' = "L152"
            /\ UNCHANGED <<todo, exc, in_scope, caught>>
    /\ UNCHANGED <<cfgVars, expVars, backendExp, dst_runs, src_run_dct, art_empty, run_id,
                   mlmodel_paths, tmp_dst, calls, result, tracking_uri>>

\* import_run.py 193, 209-210: str.replace("/MLmodel", "") on the relative path
model_path(mlmodel_path) ==
    LET stripped == SelectSeq(
            [k \in 1..Len(mlmodel_path) |->
                IF k > 1 /\ mlmodel_path[k] = "MLmodel" THEN "" ELSE mlmodel_path[k]],
            LAMBDA seg : seg # "")
    IN IF stripped = <<"MLmodel">> THEN <<>> ELSE stripped

\* import_run.py 204-205
patch(mlmodel, dst_run_id) ==
    [run_id |-> DstRef(dst_run_id),
     artifact_path |-> <<"artifacts">> \o mlmodel.artifact_path]

\* import_run.py 195, 199: mlflow.set_tracking_uri(uri), the new process-wide value
set_tracking_uri(uri) == uri

\* import_run.py 188-211: one turn of the loop
UpdateMlmodelRunId ==
    /\ pc = "L188"
    /\ todo # <<>>
    /\ LET mlmodel_path == Head(todo)
           previous_tracking_uri == tracking_uri
           mlmodel == SrcManifest(src_run_dct.run_id, mlmodel_path)
           dst_path == Append(model_path(mlmodel_path), "MLmodel")
       IN \/ /\ dst_runs' = [dst_runs EXCEPT ![run_id].art =
                                Upload(@, [p \in {dst_path} |-> patch(mlmodel, run_id)])]
             /\ calls' = Append(calls, "log_artifact")
             /\ todo' = Tail(todo)
             /\ pc' = IF Tail(todo) = <<>> THEN "L152" ELSE "L188"
             /\ exc' = exc
             /\ tracking_uri' = set_tracking_uri(previous_tracking_uri)
             /\ UNCHANGED <<in_scope, caught>>
          \/ \* 195-196: download_artifacts raises while the URI of the client is set
             /\ Throw("L196")
             /\ \E client_uri \in ClientUris : tracking_uri' = set_tracking_uri(client_uri)
             /\ UNCHANGED <<dst_runs, calls, todo>>
          \/ \* 199, 211: log_artifact raises after the URI was set back
             /\ Throw("L211")
             /\ tracking_uri' = set_tracking_uri(previous_tracking_uri)
             /\ UNCHANGED <<dst_runs, calls, todo>>
    /\ UNCHANGED <<cfgVars, expVars, backendExp, src_run_dct, art_empty, run_id, mlmodel_paths,
                   tmp_dst, result>>

\* import_run.py 152-154
LogArtifacts ==
    /\ pc = "L152"
    /\ \/ /\ \E exists \in (IF input_s3 THEN {tmp_dst} ELSE LocalExistsChoices) :
               IF exists
               THEN /\ dst_runs' = [dst_runs EXCEPT ![run_id].art =
                                       Upload(@, SrcTree(src_run_dct.run_id, mlmodel_paths))]
                    /\ calls' = Append(calls, "log_artifacts")
               ELSE UNCHANGED <<dst_runs, calls>>
          /\ pc' = "F50"
          /\ exc' = exc
          /\ UNCHANGED <<in_scope, caught>>
       \/ Throw("L154") /\ UNCHANGED <<dst_runs, calls>>
    /\ UNCHANGED <<cfgVars, expVars, backendExp, src_run_dct, art_empty, run_id, mlmodel_paths,
                   todo, tmp_dst, result, tracking_uri>>

\* filesystem.py 50, 52: the body of the with-block has completed
MoveArtifactsExit ==
    /\ pc = "F50"
    /\ IF input_s3
       THEN \/ /\ tmp_dst' = FALSE
               /\ calls' = Append(calls, "rm")
               /\ in_scope' = FALSE
               /\ pc' = "L158"
               /\ UNCHANGED <<exc, caught>>
            \/ Throw("F50") /\ UNCHANGED <<tmp_dst, calls>>
       ELSE /\ in_scope' = FALSE
            /\ pc' = "L158"
            /\ UNCHANGED <<tmp_dst, calls, exc, caught>>
    /\ UNCHANGED <<cfgVars, expVars, backendExp, dst_runs, src_run_dct, art_empty, run_id,
                   mlmodel_paths, todo, result, tracking_uri>>

finished_status_running == "RUNNING"

\* import_run.py 158: RunStatus.to_string(RunStatus.FINISHED)
finished_status == "FINISHED"

\* import_run.py 157-158
SetTerminated ==
    /\ pc = "L158"
    /\ \/ /\ dst_runs' = [dst_runs EXCEPT ![run_id].status = finished_status]
          /\ calls' = Append(calls, "set_terminated " \o finished_status)
          /\ pc' = "L159"
          /\ exc' = exc
          /\ UNCHANGED <<in_scope, caught>>
       \/ Throw("L158") /\ UNCHANGED <<dst_runs, calls>>
    /\ UNCHANGED <<cfgVars, expVars, backendExp, src_run_dct, art_empty, run_id, mlmodel_paths,
                   todo, tmp_dst, result, tracking_uri>>

\* import_run.py 159-160
GetRun ==
    /\ pc = "L159"
    /\ \/ /\ calls' = Append(calls, "get_run")
          /\ pc' = IF src_run_dct.deleted THEN "L161" ELSE "L170"
          /\ exc' = exc
          /\ UNCHANGED <<in_scope, caught>>
       \/ Throw("L159") /\ calls' = calls
    /\ UNCHANGED <<cfgVars, expVars, backendExp, dst_runs, src_run_dct, art_empty, run_id,
                   mlmodel_paths, todo, tmp_dst, result, tracking_uri>>

\* import_run.py 161
DeleteRun ==
    /\ pc = "L161"
    /\ \/ /\ dst_runs' = [dst_runs EXCEPT ![run_id].stage = "deleted"]
          /\ calls' = Append(calls, "delete_run")
          /\ pc' = "L162"
          /\ exc' = exc
          /\ UNCHANGED <<in_scope, caught>>
       \/ Throw("L161") /\ UNCHANGED <<dst_runs, calls>>
    /\ UNCHANGED <<cfgVars, expVars, backendExp, src_run_dct, art_empty, run_id, mlmodel_paths,
                   todo, tmp_dst, result, tracking_uri>>

\* import_run.py 162
GetDeletedRun ==
    /\ pc = "L162"
    /\ \/ /\ calls' = Append(calls, "get_run")
          /\ pc' = "L170"
          /\ exc' = exc
          /\ UNCHANGED <<in_scope, caught>>
       \/ Throw("L162") /\ calls' = calls
    /\ UNCHANGED <<cfgVars, expVars, backendExp, dst_runs, src_run_dct, art_empty, run_id,
                   mlmodel_paths, todo, tmp_dst, result, tracking_uri>>

is_empty_path_never(e) == FALSE

\* import_run.py 163: the first except clause takes the exception
is_empty_path(e) == e.type = "EmptyExperimentPathException"

empty_path_status_finished == "FINISHED"

\* import_run.py 164: the status set when the empty-path exception is caught
empty_path_status == "FAILED"

\* import_run.py 163-164
ExceptEmptyPath ==
    /\ pc = "except"
    /\ is_empty_path(exc)
    /\ dst_runs' = [dst_runs EXCEPT ![run_id].status = empty_path_status]
    /\ calls' = Append(calls, "set_terminated " \o empty_path_status)
    /\ exc' = NoExc
    /\ pc' = "L170"
    /\ UNCHANGED <<cfgVars, expVars, backendExp, runVars, tmp_dst, result, tracking_uri>>

\* import_run.py 169
wrap_import(e, rid, exp_name) ==
    [type |-> "MlflowExportImportException", at |-> e.at, code |-> e.code,
     cause |-> e.type, run |-> rid, exp |-> exp_name]

failure_status_running == "RUNNING"

\* import_run.py 166: the status set when any other exception is caught
failure_status == "FAILED"

propagate_swallowed(e) == "L170"

\* import_run.py 169 with no handler at 117 nor at import_experiment.py 114: the
\* raise leaves _import_run, import_run and the loop of import_experiment
propagate(e) == "raised"

\* import_run.py 165-169
ExceptOther ==
    /\ pc = "except"
    /\ ~is_empty_path(exc)
    /\ dst_runs' = [dst_runs EXCEPT ![run_id].status = failure_status]
    /\ calls' = Append(calls, "set_terminated " \o failure_status)
    /\ exc' = wrap_import(exc, run_id, ExpName)
    /\ pc' = propagate(exc)
    /\ UNCHANGED <<cfgVars, expVars, backendExp, runVars, tmp_dst, result, tracking_uri>>

\* import_run.py 170-172, 214-245
UploadNotebook ==
    /\ pc = "L170"
    /\ \/ \* 170: gate closed; 218-220: no tag; 225-227: no file; 243: imported;
          \* 244-245: the post raised MlflowExportImportException, logged
          pc' = "L174" /\ exc' = exc
       \/ \* 229-230: reading the exported notebook raises
          Escape("L229")
       \/ \* 240: create_workspace_dir raises, outside the try of 241
          Escape("L240")
       \/ \* 243: the post raises something that is no MlflowExportImportException
          Escape("L243")
    /\ UNCHANGED <<cfgVars, expVars, backendExp, dst_runs, runVars, tmp_dst, calls, result, tracking_uri>>

parent_tag_absent(run_dct) == 0

\* import_run.py 174: src_run_dct["tags"].get(MLFLOW_PARENT_RUN_ID, None), 0 for None
parent_tag(run_dct) == run_dct.parent

\* import_run.py 174 and 117-119, for a direct call of import_run
ReturnFromImportRun ==
    /\ pc = "L174"
    /\ entry = "import_run"
    /\ result' = [run |-> run_id, src_parent_run_id |-> parent_tag(src_run_dct)]
    /\ pc' = "done"
    /\ UNCHANGED <<cfgVars, expVars, backendExp, dst_runs, runVars, tmp_dst, calls, exc, tracking_uri>>

\* ------------------------------------------------------ ExperimentImporter
\* import_experiment.py 104
ExpSetExperiment ==
    /\ pc = "E104"
    /\ set_experiment("E104", "E106")
    /\ UNCHANGED <<cfgVars, expVars, dst_runs, runVars, tmp_dst, calls, result, tracking_uri>>

order_runs_as_listed(listed) == listed

\* import_experiment.py 106-107
order_runs(listed) == Reverse(listed)

\* import_experiment.py 106-112
ReverseRunIds ==
    /\ pc = "E106"
    /\ run_ids' = order_runs(runs)
    /\ pc' = "E113"
    /\ UNCHANGED <<cfgVars, i, run_ids_map, map_keys, run_info_map, link_i, backendExp,
                   dst_runs, runVars, tmp_dst, calls, exc, result, tracking_uri>>

more_runs_skip_last(k, ids) == k + 1 < Len(ids)

\* import_experiment.py 113: the for loop has another run id to take
more_runs(k, ids) == k < Len(ids)

\* import_experiment.py 113-121: the loop takes the next run id or ends
NextRun ==
    /\ pc = "E113"
    /\ IF more_runs(i, run_ids)
       THEN /\ pc' = "L123"
            /\ src_run_dct' = NoRunDct
            /\ art_empty' = FALSE
            /\ caught' = NoExc
            /\ run_id' = 0
            /\ mlmodel_paths' = <<>>
            /\ todo' = <<>>
            /\ calls' = <<>>
       ELSE /\ pc' = "E128"
            /\ UNCHANGED <<src_run_dct, art_empty, caught, run_id, mlmodel_paths, todo, calls>>
    /\ UNCHANGED <<cfgVars, expVars, backendExp, dst_runs, in_scope, tmp_dst, exc, result, tracking_uri>>

map_entry_no_parent(dst, src_parent) == [dst_run_id |-> dst, src_parent_run_id |-> 0]

\* import_experiment.py 123
map_entry(dst, src_parent) == [dst_run_id |-> dst, src_parent_run_id |-> src_parent]

\* import_experiment.py 123, 124: m[k] = v
map_put(m, k, v) == [x \in DOMAIN m \cup {k} |-> IF x = k THEN v ELSE m[x]]

\* import_run.py 174 returning into import_experiment.py 114, 122-124
RecordRun ==
    /\ pc = "L174"
    /\ entry = "import_experiment"
    /\ LET src_run_id == run_ids[i + 1]
       IN /\ run_ids_map' = map_put(run_ids_map, src_run_id,
                                     map_entry(run_id, parent_tag(src_run_dct)))
          /\ run_info_map' = map_put(run_info_map, src_run_id, run_id)
          /\ map_keys' = IF src_run_id \in DOMAIN run_ids_map THEN map_keys
                         ELSE Append(map_keys, src_run_id)
    /\ i' = i + 1
    /\ pc' = "E113"
    /\ UNCHANGED <<cfgVars, run_ids, link_i, backendExp, dst_runs, runVars, tmp_dst,
                   calls, exc, result, tracking_uri>>

\* utils.nested_tags: the destination id the parent of an entry maps to, 0 if none
dst_parent(m, v) ==
    IF v.src_parent_run_id # 0 /\ v.src_parent_run_id \in DOMAIN m
    THEN m[v.src_parent_run_id].dst_run_id ELSE 0

\* import_experiment.py 128: one entry of the linking pass
NestedTags ==
    /\ pc = "E128"
    /\ link_i < Len(map_keys)
    /\ LET v == run_ids_map[map_keys[link_i + 1]]
           p == dst_parent(run_ids_map, v)
       IN IF p # 0
          THEN \/ /\ dst_runs' = [dst_runs EXCEPT ![v.dst_run_id].parent = DstRef(p)]
                  /\ link_i' = link_i + 1
                  /\ UNCHANGED <<pc, exc>>
               \/ Escape("E128") /\ UNCHANGED <<dst_runs, link_i>>
          ELSE /\ link_i' = link_i + 1
               /\ UNCHANGED <<dst_runs, pc, exc>>
    /\ UNCHANGED <<cfgVars, run_ids, i, run_ids_map, map_keys, run_info_map, backendExp,
                   runVars, tmp_dst, calls, result, tracking_uri>>

\* import_experiment.py 130
ReturnFromImportExperiment ==
    /\ pc = "E128"
    /\ link_i = Len(map_keys)
    /\ result' = "returned"
    /\ pc' = "done"
    /\ UNCHANGED <<cfgVars, expVars, backendExp, dst_runs, runVars, tmp_dst, calls, exc, tracking_uri>>

Next ==
    \/ ExpSetExperiment
    \/ ReverseRunIds
    \/ NextRun
    \/ RunSetExperiment
    \/ RunGetExperiment
    \/ ReadRunManifest
    \/ NewFileSystem
    \/ CreateRun
    \/ ImportRunData
    \/ FindArtifacts
    \/ MoveArtifactsEnter
    \/ FixMlmodel
    \/ UpdateMlmodelRunId
    \/ LogArtifacts
    \/ MoveArtifactsExit
    \/ SetTerminated
    \/ GetRun
    \/ DeleteRun
    \/ GetDeletedRun
    \/ ExceptEmptyPath
    \/ ExceptOther
    \/ UploadNotebook
    \/ ReturnFromImportRun
    \/ RecordRun
    \/ NestedTags
    \/ ReturnFromImportExperiment

Spec == Init /\ [][Next]_vars

\* ------------------------------------------------------- path translation
\* a path is a sequence of tokens: "dbfs" and the characters around it
PathTokens == {"/", "dbfs", ":", "a"}

\* "dbfs:" and "/dbfs"
DbfsScheme == <<"dbfs", ":">>
DbfsMount == <<"/", "dbfs">>

\* str.replace(old, new): every occurrence, left to right, without overlap
RECURSIVE replace(_, _, _)
replace(str, old, new) ==
    IF Len(str) < Len(old) THEN str
    ELSE IF SubSeq(str, 1, Len(old)) = old
         THEN new \o replace(SubSeq(str, Len(old) + 1, Len(str)), old, new)
         ELSE <<Head(str)>> \o replace(Tail(str), old, new)

\* filesystem.py 10-11
mk_dbfs_path(p) == replace(p, DbfsMount, DbfsScheme)

\* filesystem.py 14-15
mk_local_path(p) == replace(p, DbfsScheme, DbfsMount)

InitPath ==
    /\ path \in SeqsUpTo(PathTokens, MaxPathLen)
    /\ path_out = path
    /\ path_ops = <<>>
    /\ entry = "import_run"
    /\ input_s3 = FALSE
    /\ mlmodel_fix = TRUE
    /\ runs = <<1>>
    /\ pc = "path"
    /\ run_ids = <<>>
    /\ i = 0
    /\ run_ids_map = NoArt
    /\ map_keys = <<>>
    /\ run_info_map = NoArt
    /\ link_i = 0
    /\ experiment = 0
    /\ next_exp_id = 1
    /\ exp_ids = <<>>
    /\ dst_runs = <<>>
    /\ src_run_dct = NoRunDct
    /\ art_empty = FALSE
    /\ caught = NoExc
    /\ run_id = 0
    /\ mlmodel_paths = <<>>
    /\ todo = <<>>
    /\ tmp_dst = FALSE
    /\ in_scope = FALSE
    /\ calls = <<>>
    /\ exc = NoExc
    /\ result = "none"
    /\ tracking_uri = GlobalUri

\* a call of mk_local_path on the string at hand
MkLocalPath ==
    /\ pc = "path"
    /\ Len(path_ops) < MaxOps
    /\ path_out' = mk_local_path(path_out)
    /\ path_ops' = Append(path_ops, "mk_local_path")
    /\ UNCHANGED <<importVars, path>>

\* a call of mk_dbfs_path on the string at hand
MkDbfsPath ==
    /\ pc = "path"
    /\ Len(path_ops) < MaxOps
    /\ path_out' = mk_dbfs_path(path_out)
    /\ path_ops' = Append(path_ops, "mk_dbfs_path")
    /\ UNCHANGED <<importVars, path>>

NextPath ==
    \/ MkLocalPath
    \/ MkDbfsPath

SpecPath == InitPath /\ [][NextPath]_vars

\* ------------------------------------------------------------ properties
CurRun == dst_runs[run_id]

\* _import_run has created a run and has been left, by return or by raise
ImportRunExited == run_id # 0 /\ pc \in {"L174", "E113", "E128", "done", "raised"}

\* _import_run has returned to its caller
ImportRunReturned == run_id # 0 /\ pc \in {"L174", "E113", "E128", "done"}

\* calls of run-data replay and of the artifact step (search, stage, patch, upload)
ReplayArtifactSteps ==
    {"L133", "L143", "F45", "F47", "F48", "L186", "L196", "L211", "L154", "F50"}

\* calls of the notebook step that can raise out of _upload_databricks_notebook
NotebookSteps == {"L229", "L240", "L243"}

Distinct(s) == \A j, k \in 1..Len(s) : j # k => s[j] # s[k]

C2_NoStagingLeft ==
    (input_s3 /\ ~in_scope /\ caught.at # "F48") => ~tmp_dst

\* C3: after a successful import_run with manifest patching enabled, every
\* model manifest stored at the destination has run_id = destination run id and
\* artifact_path = "artifacts/" + source artifact_path.
C3_ManifestsPatched ==
    (ImportRunReturned /\ pc = "L174" /\ mlmodel_fix /\ CurRun.status = "FINISHED") =>
        \A p \in Range(mlmodel_paths) :
            p \in DOMAIN CurRun.art =>
                CurRun.art[p] =
                    [run_id |-> DstRef(run_id),
                     artifact_path |-> <<"artifacts">> \o
                         SrcManifest(src_run_dct.run_id, p).artifact_path]

C7_DeleteAfterTerminated ==
    (pc = "L174" /\ src_run_dct.deleted) =>
        \E t, d \in 1..Len(calls) :
            /\ t < d
            /\ calls[t] \in {"set_terminated FINISHED", "set_terminated FAILED"}
            /\ calls[d] = "delete_run"
            /\ \A m \in (t + 1)..(d - 1) : calls[m] = "get_run"

C9_CreatedInReverseOrder ==
    entry = "import_experiment" =>
        /\ Len(dst_runs) <= Len(runs)
        /\ \A k \in 1..Len(dst_runs) : dst_runs[k].src = runs[Len(runs) + 1 - k]
        /\ pc = "done" => Len(dst_runs) = Len(runs)
        /\ (pc = "done" /\ runs = <<2, 1>>) => Cardinality(DOMAIN run_ids_map) = 2

C9_Witness ==
    /\ pc = "done"
    /\ entry = "import_experiment"
    /\ runs = <<2, 1>>
    /\ Len(dst_runs) = 2
    /\ dst_runs[1].src = 1
    /\ dst_runs[2].src = 2

\* C10: every set_experiment call for the same name returns the same
\* experiment id, the one the backend holds, and the "already exists"
\* condition of a later call never escapes as an error.
C10_SetExperimentIdempotent ==
    /\ \A j, k \in 1..Len(exp_ids) : exp_ids[j] = exp_ids[k]
    /\ exp_ids # <<>> => exp_ids[Len(exp_ids)] = experiment
    /\ exc.code # "RESOURCE_ALREADY_EXISTS"

C10_Witness ==
    /\ Len(exp_ids) >= 2
    /\ exp_ids[1] = exp_ids[2]
    /\ pc \notin {"raised"}

C12_NoRunWhenExperimentUnresolved ==
    /\ (pc = "raised" /\ exc.at \in {"L123", "E104"}) =>
          /\ run_id = 0
          /\ calls = <<>>
          /\ Len(dst_runs) = i
          /\ exc.at = "E104" => dst_runs = <<>>
    /\ dst_runs # <<>> =>
          Len(dst_runs) + (IF entry = "import_experiment" THEN 1 ELSE 0) <= Len(exp_ids)

C12_Witness ==
    /\ pc = "raised"
    /\ exc.at = "E104"
    /\ exc.type = "MlflowExportImportException"
    /\ exc.code = "INTERNAL_ERROR"
    /\ runs # <<>>
    /\ dst_runs = <<>>

\* C13: the notebook step is never the reason import_run raises: no exception
\* of the creation of the destination workspace directory or of the workspace
\* import call leaves import_run, and the step leaves the terminal status of
\* the run as it was.
C13_NotebookNonFatal ==
    /\ pc = "raised" => exc.at \notin {"L240", "L243"}
    /\ (pc = "L174" /\ run_id # 0) =>
          CurRun.status = IF caught = NoExc THEN "FINISHED" ELSE "FAILED"

\* the search for model manifests of the current run has returned no match
FoundNone ==
    /\ run_id # 0
    /\ mlmodel_paths = <<>>
    /\ pc \notin {"L133", "L143"}
    /\ caught.at \notin {"L133", "L143"}

\* C14: when the search for model manifests returns no match, no staging, no
\* manifest patch, no bulk upload and no removal of a staging copy is done for
\* the run, the next call is set_terminated(FINISHED), and the run ends
\* FINISHED unless termination, the re-read or the delete call itself fails.
C14_NoMatchSkipsArtifacts ==
    FoundNone =>
        /\ Range(calls) \cap {"cp", "log_artifact", "log_artifacts", "rm"} = {}
        /\ ~tmp_dst
        /\ CurRun.art = NoArt
        /\ caught.type # "EmptyExperimentPathException"
        /\ caught # NoExc => caught.at \in {"L158", "L159", "L161", "L162"}
        /\ (ImportRunExited /\ caught = NoExc) => CurRun.status = "FINISHED"
        /\ (Len(calls) >= 3 /\ caught.at # "L158") => calls[3] = "set_terminated FINISHED"

C14_Witness ==
    /\ FoundNone
    /\ pc = "L174"
    /\ input_s3
    /\ art_empty
    /\ CurRun.status = "FINISHED"
    /\ calls = <<"create_run", "import_run_data", "set_terminated FINISHED", "get_run">>

\* the two forms of a path and what follows the prefix
ObjectStoreForm(p) == Len(p) >= 3 /\ SubSeq(p, 1, 3) = DbfsScheme \o <<"/">>
MountForm(p) == Len(p) >= 3 /\ SubSeq(p, 1, 3) = DbfsMount \o <<"/">>
Stem(p) == SubSeq(p, 3, Len(p))

\* C15: path translation is lossless in both directions: a path in
\* object-store form comes back from mk_dbfs_path(mk_local_path(p)) unchanged,
\* a path in mount form comes back from mk_local_path(mk_dbfs_path(q))
\* unchanged, and one translation changes the leading prefix only, also when
\* a prefix token occurs again inside the path.
C15_PathTranslationLossless ==
    /\ (ObjectStoreForm(path) /\ path_ops = <<"mk_local_path">>) =>
          path_out = DbfsMount \o Stem(path)
    /\ (MountForm(path) /\ path_ops = <<"mk_dbfs_path">>) =>
          path_out = DbfsScheme \o Stem(path)
    /\ (ObjectStoreForm(path) /\ path_ops = <<"mk_local_path", "mk_dbfs_path">>) =>
          path_out = path
    /\ (MountForm(path) /\ path_ops = <<"mk_dbfs_path", "mk_local_path">>) =>
          path_out = path

\* C16: within one import_experiment call a source run id is associated with
\* at most one destination run id: no step replaces the destination run id
\* that the ID Mapping holds for a source run id, whatever the manifest lists.
C16_OneDstPerSrc ==
    [][\A src \in DOMAIN run_ids_map :
          /\ src \in DOMAIN run_ids_map'
          /\ run_ids_map'[src].dst_run_id = run_ids_map[src].dst_run_id
          /\ run_info_map'[src] = run_info_map[src]]_vars

\* calls of import_run on the tracking backend, the artifact store and the
\* workspace: experiment resolution, run creation, and the notebook upload;
\* the calls of the try block are ReplayArtifactSteps and the four after them
BackendStepsOutsideTry == {"L123", "L125", "L129", "L240", "L243"}

\* C17: an exception that leaves import_run because a call on the tracking
\* backend or the artifact store failed is the domain exception
\* MlflowExportImportException and carries the original exception as cause,
\* whichever step failed.
C17_OnlyDomainExceptionEscapes ==
    (pc = "raised" /\ exc.at \in BackendStepsOutsideTry \cup ReplayArtifactSteps
                                  \cup {"L158", "L159", "L161", "L162"}) =>
        /\ exc.type = "MlflowExportImportException"
        /\ exc.cause \notin {"", "none"}

\* the terminal status of run k is set, and the run is deleted if its source is
LifecycleOver(k) ==
    /\ dst_runs[k].status # "RUNNING"
    /\ (k = run_id /\ src_run_dct.deleted) => dst_runs[k].stage = "deleted"

RunLeft(k) == k # run_id \/ pc \in {"L170", "L174", "E113", "E128", "done", "raised"}

\* what one step may do to run k
LifecycleStep(k) ==
    LET r == dst_runs[k]
        n == dst_runs'[k]
    IN /\ (n.parent # r.parent /\ pc # "E128") =>
              /\ pc = "L133"
              /\ r.art = NoArt /\ r.status = "RUNNING" /\ r.stage = "active"
       /\ n.art # r.art =>
              /\ "import_run_data" \in Range(calls)
              /\ r.status = "RUNNING" /\ n.status = "RUNNING" /\ r.stage = "active"
       /\ n.status # r.status =>
              \/ r.status = "RUNNING" /\ r.stage = "active"
              \/ r.status = "FINISHED" /\ n.status = "FAILED" /\ pc = "except"
       /\ n.stage # r.stage =>
              r.status = "FINISHED" /\ n.status = "FINISHED" /\ n.stage = "deleted"
       /\ (RunLeft(k) /\ pc # "E128") => n = r

CountCalls(c) == Cardinality({k \in 1..Len(calls) : calls[k] = c})

\* C19: when a model manifest was found, the artifact step is staged, patched,
\* uploaded and cleaned in that order: on an object-store path the copy to the
\* staging place precedes every patch and the upload, no patch follows the
\* bulk upload, with patching enabled every discovered manifest was patched
\* when the bulk upload is made, and the staging copy is removed only after
\* the upload and is the last call of the step.
C19_StagePatchUploadRemove ==
    /\ \A j, k \in 1..Len(calls) :
          j < k =>
             /\ calls[j] = "log_artifacts" => calls[k] \notin {"log_artifact", "log_artifacts", "cp"}
             /\ calls[j] = "rm" => calls[k] \notin {"log_artifact", "log_artifacts", "cp", "rm"}
             /\ calls[j] = "log_artifact" => calls[k] # "cp"
    /\ (input_s3 /\ Range(calls) \cap {"log_artifact", "log_artifacts", "rm"} # {}) =>
          "cp" \in Range(calls)
    /\ ("log_artifacts" \in Range(calls) /\ mlmodel_fix) =>
          CountCalls("log_artifact") = Len(mlmodel_paths)
    /\ "rm" \in Range(calls) => "log_artifacts" \in Range(calls) /\ ~tmp_dst
    /\ Range(calls) \cap {"cp", "log_artifact", "log_artifacts", "rm"} # {} =>
          mlmodel_paths # <<>>

C19_Witness ==
    /\ pc = "L158"
    /\ input_s3
    /\ mlmodel_fix
    /\ Len(mlmodel_paths) = 2
    /\ calls = <<"create_run", "import_run_data", "cp", "log_artifact", "log_artifact",
                 "log_artifacts", "rm">>

\* destination runs that are RUNNING
RunningRuns == {k \in 1..Len(dst_runs) : dst_runs[k].status = "RUNNING"}

\* C20: runs are imported one after the other and linked last: at most one
\* destination run is RUNNING at any moment, and it is the one import_run is
\* working on; the linking pass starts, and a parent tag holds a destination
\* id, only when the loop has taken every listed run id, every one of them is
\* in the ID Mapping and no run is RUNNING.
C20_SequentialLinkingLast ==
    /\ Cardinality(RunningRuns) <= 1
    /\ RunningRuns \subseteq {run_id}
    /\ (pc = "E128" \/ link_i > 0
          \/ \E k \in 1..Len(dst_runs) : dst_runs[k].parent.ns = "dst") =>
          /\ entry = "import_experiment"
          /\ i = Len(runs)
          /\ Len(dst_runs) = Len(runs)
          /\ DOMAIN run_ids_map = Range(runs)
          /\ RunningRuns = {}

C20_Witness ==
    /\ pc = "E128"
    /\ Len(runs) = 2
    /\ link_i = 1
    /\ \E k \in 1..Len(dst_runs) : dst_runs[k].parent.ns = "dst"
    /\ \E k \in 1..Len(dst_runs) : dst_runs[k].status = "FAILED"

\* C21: on an object-store path the staged-artifact scope raises the
\* empty-path exception exactly when the path being staged holds no object:
\* it raises only for an empty artifact path, it raises before any copy to
\* the staging place, and it does not go on to copy an empty artifact path.
C21_EmptyPathIffNoObjects ==
    input_s3 =>
        /\ caught.type = "EmptyExperimentPathException" =>
               /\ art_empty
               /\ "cp" \notin Range(calls)
               /\ ~tmp_dst
        /\ "cp" \in Range(calls) => ~art_empty

\* C22: when import_run raises the domain exception for a run of
\* import_experiment, the exception leaves import_experiment as it is: the
\* failing run is the last one created and is not entered in the mappings,
\* the linking pass has not run, so no parent tag holds a destination id, and
\* nothing is returned.
C22_RunFailureAborts ==
    entry = "import_experiment" =>
        /\ caught.type = "Exception" => pc \in {"except", "raised"}
        /\ (pc = "raised" /\ caught.type = "Exception") =>
               /\ exc = wrap_import(caught, run_id, ExpName)
               /\ run_id = Len(dst_runs)
               /\ Len(dst_runs) = i + 1
               /\ \A s \in DOMAIN run_info_map : run_info_map[s] # run_id
               /\ link_i = 0
               /\ \A k \in 1..Len(dst_runs) : dst_runs[k].parent.ns # "dst"
               /\ result = "none"

C22_Witness ==
    /\ entry = "import_experiment"
    /\ pc = "raised"
    /\ exc.type = "MlflowExportImportException"
    /\ exc.run = 2
    /\ runs = <<1, 2>>
    /\ Len(dst_runs) = 2
    /\ dst_runs[1].status = "FINISHED"
    /\ dst_runs[1].parent = SrcRef(1)
    /\ dst_runs[2].status = "FAILED"
    /\ DOMAIN run_info_map = {2}

\* C23: on every normal return, the one after the empty-path exception
\* included, import_run returns the destination run it created together with
\* the parent-run id of the source run manifest, none (0) when the manifest
\* has no parent-run tag; import_experiment enters that pair in the ID Mapping.
C23_ReturnsRunAndSourceParent ==
    /\ (entry = "import_run" /\ pc = "done") =>
          /\ result.run = run_id
          /\ result.run = Len(dst_runs)
          /\ CurRun.src = runs[1]
          /\ result.src_parent_run_id = CurRun.src_parent
    /\ entry = "import_experiment" =>
          \A s \in DOMAIN run_ids_map :
              /\ dst_runs[run_ids_map[s].dst_run_id].src = s
              /\ run_ids_map[s].src_parent_run_id =
                     dst_runs[run_ids_map[s].dst_run_id].src_parent

C23_Witness ==
    /\ entry = "import_run"
    /\ pc = "done"
    /\ caught.type = "EmptyExperimentPathException"
    /\ CurRun.status = "FAILED"
    /\ runs = <<1>>
    /\ result = [run |-> 1, src_parent_run_id |-> 2]

C25_NoRunBeforeManifestAndFs ==
    /\ (pc = "raised" /\ exc.at \in {"L127", "L128"}) =>
          /\ run_id = 0
          /\ calls = <<>>
          /\ Len(dst_runs) = i
    /\ pc \in {"L123", "L125", "L127", "L128", "L129"} =>
          run_id = 0 /\ Len(dst_runs) = i
    /\ run_id # 0 =>
          /\ run_id = Len(dst_runs)
          /\ src_run_dct.run_id = CurRun.src
          /\ src_run_dct.parent = CurRun.src_parent

C25_Witness ==
    /\ entry = "import_experiment"
    /\ pc = "raised"
    /\ exc.at = "L128"
    /\ runs = <<1, 2>>
    /\ i = 1
    /\ src_run_dct.run_id = 1
    /\ Len(dst_runs) = 1
    /\ dst_runs[1].src = 2

\* C26: manifest patching leaves the process-wide tracking URI as it was
\* before the call, on every way out of _update_mlmodel_run_id, the one where
\* the download of a manifest raises included.
C26_TrackingUriRestored ==
    tracking_uri = GlobalUri
====
